---- MODULE Spec2Model ----
(***************************************************************************)
(* SolidFire Flocker block-device driver                                   *)
(* (solidfire_flocker_driver/solidfire_driver.py).                         *)
(*                                                                         *)
(* The cluster (accounts, volume access groups, volumes, iSCSI sessions)   *)
(* and the hosts' local iSCSI state (device paths) are the state; every    *)
(* driver operation is one action translated from its method.  Driver      *)
(* initialisation is modelled call by call, so that two initialisations    *)
(* can interleave.                                                         *)
(***************************************************************************)
EXTENDS Integers, Sequences, FiniteSets, TLC

VARIABLES
    accounts,   \* cluster: set of [accountID, username]
    vags,       \* cluster: set of [volumeAccessGroupID, name, initiators, volumes]
    volumes,    \* cluster: sequence of volume records, in volumeID order
    sessions,   \* cluster: set of [host, volumeID], the live iSCSI sessions
    nextID,     \* cluster: the next accountID / volumeAccessGroupID / volumeID
    devpath,    \* per host: the targets whose /dev/disk/by-path entry exists
    drv,        \* per host: the driver instance (bootstrap position and state)
    config,     \* the configuration the instances are built with
    completed,  \* history: the (account_id, vag_id) of every finished __init__
    overlap,    \* history: two initialisations were ever in progress together
    cluster0,   \* history: the accounts and access groups the cluster began with
    destroyed,  \* history: the volumeIDs destroy_volume has returned normally for
    last,       \* history: the most recent driver call, its inputs and result
    running     \* per volume: the call in progress on it, step by step

vars == <<accounts, vags, volumes, sessions, nextID, devpath, drv, config,
          completed, overlap, cluster0, destroyed, last, running>>

cluster == <<accounts, vags, volumes, sessions, nextID>>

(***************************************************************************)
(* Bounds of the model.                                                    *)
(***************************************************************************)
MaxVols == 1    \* volumes the cluster ever creates (volumeIDs 1..MaxVols)
MaxSize == 2    \* volume sizes, in allocation units
MaxRuns == 1    \* initialisations per host
HexLen == 4     \* hexadecimal digits of a UUID (uuid.UUID has 32)

Hosts == {"h1", "h2"}

Sizes == 1..MaxSize

VolIDs == 1..MaxVols

\* initialize_driver(cluster_id): account name and access group name are both
\* the cluster identifier
ClusterId == "flocker"

(***************************************************************************)
(* Python values.  An identifier travels as an int (the cluster's JSON     *)
(* numbers) or as a unicode string of decimal digits (blockdevice_id).     *)
(* In Python 2 an int and a unicode string are never equal.                *)
(***************************************************************************)
RECURSIVE Digits(_)
Digits(n) == IF n < 10 THEN <<n>> ELSE Digits(n \div 10) \o <<n % 10>>

RECURSIVE ParseDec(_)
ParseDec(ds) ==
    IF Len(ds) = 0 THEN 0
    ELSE 10 * ParseDec(SubSeq(ds, 1, Len(ds) - 1)) + ds[Len(ds)]

PyIntVal(n) == [type |-> "int", val |-> n]

\* unicode(n)
unicode(x) ==
    IF x.type = "int" THEN [type |-> "unicode", digits |-> Digits(x.val)] ELSE x

\* int(x)
int(x) == IF x.type = "int" THEN x.val ELSE ParseDec(x.digits)

\* x == y
PyEq(x, y) ==
    /\ x.type = y.type
    /\ IF x.type = "int" THEN x.val = y.val ELSE x.digits = y.digits

\* the optional values (None or something)
None == [some |-> FALSE]

Some(v) == [some |-> TRUE, val |-> v]

(***************************************************************************)
(* Strings are sequences of one-character strings.                         *)
(***************************************************************************)
Rep(c, n) == [i \in 1..n |-> c]

HexDigits ==
    {"0", "1", "2", "3", "4", "5", "6", "7", "8", "9",
     "a", "b", "c", "d", "e", "f"}

\* sub in s
RECURSIVE StrContains(_, _)
StrContains(s, sub) ==
    IF Len(s) < Len(sub) THEN FALSE
    ELSE IF SubSeq(s, 1, Len(sub)) = sub THEN TRUE
    ELSE StrContains(Tail(s), sub)

\* s.replace(old, new)
RECURSIVE StrReplace(_, _, _)
StrReplace(s, old, new) ==
    IF Len(s) < Len(old) \/ Len(s) = 0 THEN s
    ELSE IF SubSeq(s, 1, Len(old)) = old
         THEN new \o StrReplace(SubSeq(s, Len(old) + 1, Len(s)), old, new)
    ELSE <<Head(s)>> \o StrReplace(Tail(s), old, new)

\* uuid.UUID(hex): the hyphens are dropped, and what is left must be HexLen
\* hexadecimal digits, else ValueError
UUID(s) ==
    LET hex == StrReplace(s, <<"-">>, <<>>)
    IN  IF Len(hex) = HexLen /\ \A i \in 1..Len(hex) : hex[i] \in HexDigits
        THEN [ok |-> TRUE, hex |-> hex]
        ELSE [ok |-> FALSE, hex |-> <<>>]

\* the canonical text of a UUID: hexadecimal digits in hyphenated groups
UuidText(c) == Rep(c, HexLen - 1) \o <<"-">> \o Rep(c, 1)

\* the dataset ids callers create volumes for
DatasetIds == {UuidText("1"), UuidText("a")}

FlockPrefix == <<"f", "l", "o", "c", "k", "-">>

\* the volume_prefix settings: the default '', 'flock-' and 'sf-'
Prefixes == {<<>>, FlockPrefix, <<"s", "f", "-">>}

(***************************************************************************)
(* Profiles (_set_profiles).                                               *)
(***************************************************************************)
QosKeys == {"minIOPS", "maxIOPS", "burstIOPS"}

DefaultProfiles ==
    [n \in {"Gold", "Silver", "Bronze"} |->
        CASE n = "Gold" ->
                [minIOPS |-> 5000, maxIOPS |-> 8000, burstIOPS |-> 15000]
          [] n = "Silver" ->
                [minIOPS |-> 3000, maxIOPS |-> 5000, burstIOPS |-> 10000]
          [] n = "Bronze" ->
                [minIOPS |-> 1000, maxIOPS |-> 3000, burstIOPS |-> 5000]]

\* a 'profiles' setting: a complete record, one with an extra key, one with a
\* key missing and an empty one
ConfiguredProfiles ==
    [n \in {"Fast", "Extra", "Partial", "Empty"} |->
        CASE n = "Fast" ->
                [minIOPS |-> 100, maxIOPS |-> 200, burstIOPS |-> 300]
          [] n = "Extra" ->
                [minIOPS |-> 10, maxIOPS |-> 20, burstIOPS |-> 30,
                 color |-> 1]
          [] n = "Partial" -> [minIOPS |-> 100, maxIOPS |-> 200]
          [] n = "Empty" -> <<>>]

\* kwargs.get('profiles'): None, or the text of a mapping
_set_profiles(config_profiles) ==
    IF config_profiles.some THEN config_profiles.val ELSE DefaultProfiles

ProfileSettings == {None, Some(ConfiguredProfiles)}

\* the profile names callers ask for (None: no name)
ProfileNames ==
    {None} \cup {Some(n) : n \in {"Gold", "Bronze", "Fast", "Extra", "Partial",
                                   "Empty", "Nope"}}

\* all(k in profile for k in ('minIOPS', 'maxIOPS', 'burstIOPS'))
AllKeysAny(profile) == \E k \in QosKeys : k \in DOMAIN profile

AllKeys(profile) == \A k \in QosKeys : k \in DOMAIN profile

\* self.profiles.get(profile_name, None); an empty record is falsy and is
\* returned as it is
_process_profile(profiles, profile_name) ==
    LET profile ==
            IF profile_name.some /\ profile_name.val \in DOMAIN profiles
            THEN Some(profiles[profile_name.val])
            ELSE None
    IN  IF ~profile.some \/ DOMAIN profile.val = {}
        THEN profile
        ELSE IF ~AllKeys(profile.val) THEN None ELSE profile

\* if profile: params['qos'] = {the three keys}; a missing key is a KeyError
Truthy(profile) == profile.some /\ DOMAIN profile.val # {}

QosBlock(profile) ==
    IF ~Truthy(profile) THEN [err |-> FALSE, qos |-> None]
    ELSE IF QosKeys \subseteq DOMAIN profile.val
         THEN [err |-> FALSE,
               qos |-> Some([k \in QosKeys |-> profile.val[k]])]
    ELSE [err |-> TRUE, qos |-> None]

(***************************************************************************)
(* The cluster, as the driver sees it through sfapi.SolidFireClient.       *)
(* issue_request, and the host's iSCSI state, as it sees it through utils. *)
(***************************************************************************)
\* issue_request('ListVolumesForAccount', {'accountID': a})['volumes']
ListVolumesForAccount(a) == SelectSeq(volumes, LAMBDA v : v.accountID = a)

\* issue_request('ListISCSISessions', {})['sessions']: volumeID is a number
ListISCSISessions ==
    {[volumeID |-> PyIntVal(s.volumeID), host |-> s.host] : s \in sessions}

\* utils.path_exists('/dev/disk/by-path/ip-<svip>-iscsi-<iqn>-lun-0', 1)
path_exists(h, iqn) == iqn \in devpath[h]

\* socket.gethostbyname(socket.getfqdn())
compute_instance_id(h) == h

\* the driver instance of a host whose __init__ has returned
Usable(h) == drv[h].pc = "done"

(***************************************************************************)
(* _get_solidfire_volume: the first volume of the account whose volumeID   *)
(* is, as an integer, the identifier asked for.                            *)
(***************************************************************************)
RECURSIVE FirstMatch(_, _)
FirstMatch(vols, solidfire_id) ==
    IF Len(vols) = 0 THEN None
    ELSE IF int(PyIntVal(Head(vols).volumeID)) = int(solidfire_id)
         THEN Some(Head(vols))
    ELSE FirstMatch(Tail(vols), solidfire_id)

_get_solidfire_volume(h, solidfire_id) ==
    FirstMatch(ListVolumesForAccount(drv[h].account_id), solidfire_id)

\* _current_iscsi_sessions: the sessions whose volumeID equals sf_volid
SessionsOfAnyVolume(sf_volid) == ListISCSISessions

_current_iscsi_sessions(sf_volid) ==
    {session \in ListISCSISessions : PyEq(sf_volid, session.volumeID)}

(***************************************************************************)
(* What a call finds before it runs (for the properties only).             *)
(***************************************************************************)
VolumeOf(id) == {v \in {volumes[i] : i \in 1..Len(volumes)} : v.volumeID = id}

Observed(op, h, id) ==
    [exists    |-> VolumeOf(id) # {},
     destroyed |-> id \in destroyed,
     path      |-> id \in devpath[h],
     remote    |-> \E s \in sessions : s.volumeID = id,
     size      |-> IF VolumeOf(id) = {} THEN 0
                   ELSE (CHOOSE v \in VolumeOf(id) : TRUE).totalSize,
     name      |-> IF VolumeOf(id) = {} THEN <<>>
                   ELSE (CHOOSE v \in VolumeOf(id) : TRUE).name,
     \* the call before was the same call, and returned normally
     again     |-> /\ op \in {"attach_volume", "detach_volume"}
                   /\ last.op = op
                   /\ last.host = h
                   /\ last.id = id
                   /\ last.result = "ok",
     \* the call before created a volume, and list_volumes follows it
     created   |-> IF /\ op = "list_volumes"
                      /\ last.op \in {"create_volume",
                                      "create_volume_with_profile"}
                      /\ last.result = "ok"
                   THEN Some([dataset_id |-> last.arg.dataset_id,
                              size |-> last.arg.size])
                   ELSE None]

NoCall ==
    [op |-> "none", host |-> "none", id |-> 0, arg |-> <<>>, pre |-> <<>>,
     calls |-> <<>>, done |-> {}, result |-> "none", ret |-> None]

Call(op, h, id, arg, pre, out) ==
    [op |-> op, host |-> h, id |-> id, arg |-> arg, pre |-> pre,
     calls |-> out.calls, done |-> out.done, result |-> out.result,
     ret |-> out.ret]

\* what a method did: the cluster requests and iSCSI commands it issued, in
\* order, those of them that took effect, and how it ended
Out(calls, done, result, ret) ==
    [calls |-> calls, done |-> done, result |-> result, ret |-> ret]

Req(method, params) == [method |-> method, params |-> params]

Methods(calls) == {calls[i].method : i \in 1..Len(calls)}

BlockDeviceVolume(blockdevice_id, size, attached_to, dataset_id) ==
    [blockdevice_id |-> blockdevice_id, size |-> size,
     attached_to |-> attached_to, dataset_id |-> dataset_id]

(***************************************************************************)
(* create_volume_with_profile.  fail names the cluster request that fails  *)
(* (0: none).                                                              *)
(***************************************************************************)
\* params['volumeAccessGroupID'] = self.vag_id;
\* params['volumes'] = [int(result['volumeID'])]
AddVolumesParamsNoVolume(h, volumeID) ==
    [volumeAccessGroupID |-> drv[h].vag_id, volumes |-> <<>>]

AddVolumesParams(h, volumeID) ==
    [volumeAccessGroupID |-> drv[h].vag_id, volumes |-> <<int(volumeID)>>]

\* a create that deletes the volume again when a request fails
CreateOutcomeUndone(h, dataset_id, size, profile_name, fail) ==
    Out(<<Req("CreateVolume", <<>>),
          Req("AddVolumesToVolumeAccessGroup", <<>>),
          Req("DeleteVolume", <<>>)>>, {}, "RequestFailure", None)

CreateOutcome(h, dataset_id, size, profile_name, fail) ==
    LET vname == config.volume_prefix \o dataset_id
        profile == _process_profile(drv[h].profiles, profile_name)
        block == QosBlock(profile)
        params == [name |-> vname, accountID |-> drv[h].account_id,
                   sliceCount |-> 1, totalSize |-> size, enable512e |-> TRUE,
                   qos |-> block.qos]
        create == Req("CreateVolume", params)
        volumeID == PyIntVal(nextID.volume)
        add == Req("AddVolumesToVolumeAccessGroup",
                   AddVolumesParams(h, volumeID))
        dataset == UUID(dataset_id)
    IN  IF block.err THEN Out(<<>>, {}, "KeyError", None)
        ELSE IF fail = 1 THEN Out(<<create>>, {}, "RequestFailure", None)
        ELSE IF fail = 2
             THEN Out(<<create, add>>, {"CreateVolume"}, "RequestFailure", None)
        ELSE IF ~dataset.ok
             THEN Out(<<create, add>>,
                      {"CreateVolume", "AddVolumesToVolumeAccessGroup"},
                      "ValueError", None)
        ELSE Out(<<create, add>>,
                 {"CreateVolume", "AddVolumesToVolumeAccessGroup"}, "ok",
                 Some(BlockDeviceVolume(unicode(volumeID), size, None,
                                        dataset.hex)))

Create(op, h, dataset_id, size, profile_name) ==
    /\ Usable(h)
    /\ nextID.volume <= MaxVols
    /\ \E fail \in 0..2 :
         LET out == CreateOutcome(h, dataset_id, size, profile_name, fail)
             id == nextID.volume
             p == out.calls[1].params
         IN  /\ last' = Call(op, h, id,
                             [dataset_id |-> dataset_id, size |-> size,
                              profile_name |-> profile_name, fail |-> fail],
                             Observed(op, h, id), out)
             /\ IF "CreateVolume" \in out.done
                THEN /\ volumes' = Append(volumes,
                                     [volumeID |-> id, name |-> p.name,
                                      accountID |-> p.accountID,
                                      totalSize |-> p.totalSize, iqn |-> id])
                     /\ nextID' = [nextID EXCEPT !.volume = @ + 1]
                ELSE UNCHANGED <<volumes, nextID>>
             /\ IF "AddVolumesToVolumeAccessGroup" \in out.done
                THEN LET a == out.calls[2].params
                     IN  vags' = {IF g.volumeAccessGroupID
                                       = a.volumeAccessGroupID
                                  THEN [g EXCEPT !.volumes = @ \cup
                                          {a.volumes[i] :
                                             i \in 1..Len(a.volumes)}]
                                  ELSE g : g \in vags}
                ELSE UNCHANGED vags
    /\ UNCHANGED <<accounts, sessions, devpath, drv, config, completed, overlap,
                   cluster0, destroyed,
                   running>>

CreateWithProfile(datasets, names) ==
    \E h \in Hosts, d \in datasets, s \in Sizes, p \in names :
        Create("create_volume_with_profile", h, d, s, p)

create_volume_with_profile ==
    CreateWithProfile({UuidText("1")}, {Some("Gold")})

\* the same, over every profile name
create_volume_with_any_profile ==
    CreateWithProfile({UuidText("1")}, ProfileNames)

\* create_volume: create_volume_with_profile(dataset_id, size, None)
CreateVolume(datasets) ==
    \E h \in Hosts, d \in datasets, s \in Sizes :
        Create("create_volume", h, d, s, None)

create_volume == CreateVolume({UuidText("1")})

\* the same, over every dataset id
create_volume_of_any_dataset == CreateVolume(DatasetIds)

\* the blockdevice_id values callers pass: unicode(volumeID)
BlockDeviceIds == {unicode(PyIntVal(i)) : i \in VolIDs}

(***************************************************************************)
(* destroy_volume                                                          *)
(***************************************************************************)
\* sfapi.SolidFireRequestException: the cluster's error code and its
\* message, a sequence of words
RequestFailure(code, message) == [code |-> code, message |-> message]

\* a failure the cluster may answer any request with
OtherFailures ==
    {RequestFailure(500, <<"xDBConnectionLoss", "try", "again">>),
     RequestFailure(401, <<"xPermissionDenied">>)}

\* issue_request('DeleteVolume', {'volumeID': id}): the fault, if the cluster
\* has one; else xVolumeIDDoesNotExist for a volume it does not have
DeleteVolumeAnswer(id, fault) ==
    IF fault.some THEN fault
    ELSE IF VolumeOf(id) = {}
         THEN Some(RequestFailure(500, <<"xVolumeIDDoesNotExist", "volumeID">>))
    ELSE None

\* 'xVolumeIDDoesNotExist' in ex.msg
IsMissingVolumeNever(ex) == FALSE

IsMissingVolume(ex) ==
    "xVolumeIDDoesNotExist" \in {ex.message[i] : i \in 1..Len(ex.message)}

\* a destroy that returns without having deleted anything
DestroyNothing(blockdevice_id, fault) == Out(<<>>, {}, "ok", None)

\* ret of a call that ends in the cluster's failure is the exception raised
DestroyOutcome(blockdevice_id, fault) ==
    LET id == int(blockdevice_id)
        delete == Req("DeleteVolume", [volumeID |-> id])
        ex == DeleteVolumeAnswer(id, fault)
    IN  IF ~ex.some THEN Out(<<delete>>, {"DeleteVolume"}, "ok", None)
        ELSE IF IsMissingVolume(ex.val)
             THEN Out(<<delete>>, {}, "UnknownVolume", None)
        ELSE Out(<<delete>>, {}, "RequestFailure", ex)

destroy_volume ==
    \E h \in Hosts, b \in BlockDeviceIds,
       fault \in {None} \cup {Some(f) : f \in OtherFailures} :
        LET out == DestroyOutcome(b, fault)
            id == int(b)
        IN  /\ Usable(h)
            /\ last' = Call("destroy_volume", h, id,
                            [answer |-> DeleteVolumeAnswer(id, fault)],
                            Observed("destroy_volume", h, id), out)
            /\ volumes' = IF "DeleteVolume" \in out.done
                          THEN SelectSeq(volumes, LAMBDA v : v.volumeID # id)
                          ELSE volumes
            /\ destroyed' = IF out.result = "ok" THEN destroyed \cup {id}
                            ELSE destroyed
            /\ UNCHANGED <<accounts, vags, sessions, nextID, devpath, drv,
                           config, completed, overlap, cluster0, running>>

(***************************************************************************)
(* get_device_path.  found: whether utils.get_device_file_from_path finds  *)
(* a device file when the by-path entry is absent.                         *)
(***************************************************************************)
GetDevicePathOutcome(h, blockdevice_id, fail, found) ==
    LET list == Req("ListVolumesForAccount", [accountID |-> drv[h].account_id])
        vol == _get_solidfire_volume(h, blockdevice_id)
    IN  IF fail = 1 THEN Out(<<list>>, {}, "RequestFailure", None)
        ELSE IF ~vol.some THEN Out(<<list>>, {}, "UnknownVolume", None)
        ELSE IF path_exists(h, vol.val.iqn) \/ found
             THEN Out(<<list>>, {}, "ok", Some(vol.val.iqn))
        ELSE Out(<<list>>, {}, "OSError", None)

get_device_path ==
    \E h \in Hosts, b \in BlockDeviceIds, fail \in 0..1, found \in BOOLEAN :
        /\ Usable(h)
        /\ last' = Call("get_device_path", h, int(b), <<>>,
                        Observed("get_device_path", h, int(b)),
                        GetDevicePathOutcome(h, b, fail, found))
        /\ UNCHANGED <<cluster, devpath, drv, config, completed, overlap,
                       cluster0, destroyed,
                   running>>

(***************************************************************************)
(* attach_volume.  targets is what utils.iscsi_discovery returns, login    *)
(* what utils.iscsi_login returns.                                         *)
(***************************************************************************)
\* if utils.path_exists(<the volume's device path>, 1): already attached
AttachPathGuardOff(h, vol) == FALSE

AttachPathGuard(h, vol) == path_exists(h, vol.iqn)

\* what discovery may return: nothing, the volume's target, or only a target
\* that is no volume's
TargetLists(vol) == {<<>>, <<vol.iqn>>, <<vol.iqn + MaxVols>>}

\* if len(targets) < 1 and tgt_iqn not in targets: raise
NoTargets(targets, tgt_iqn) ==
    Len(targets) < 1 /\ tgt_iqn \notin {targets[i] : i \in 1..Len(targets)}

AttachOutcome(h, blockdevice_id, attach_to, fail, targets, login) ==
    LET list == Req("ListVolumesForAccount", [accountID |-> drv[h].account_id])
        vol == _get_solidfire_volume(h, blockdevice_id)
        tgt_iqn == vol.val.iqn
        slist == Req("ListISCSISessions", <<>>)
        current_sessions == _current_iscsi_sessions(blockdevice_id)
        disc == Req("iscsi_discovery", <<>>)
        log == Req("iscsi_login", [tgt_iqn |-> tgt_iqn])
        dataset == UUID(vol.val.name)
    IN  IF fail = 1 THEN Out(<<list>>, {}, "RequestFailure", None)
        ELSE IF ~vol.some THEN Out(<<list>>, {}, "UnknownVolume", None)
        ELSE IF AttachPathGuard(h, vol.val)
             THEN Out(<<list>>, {}, "AlreadyAttachedVolume", None)
        ELSE IF fail = 2 THEN Out(<<list, slist>>, {}, "RequestFailure", None)
        ELSE IF current_sessions # {}
             THEN Out(<<list, slist>>, {}, "AlreadyAttachedVolume", None)
        ELSE IF NoTargets(targets, tgt_iqn)
             THEN Out(<<list, slist, disc>>, {}, "Exception", None)
        ELSE IF ~login
             THEN Out(<<list, slist, disc, log>>, {}, "Exception", None)
        ELSE IF ~dataset.ok
             THEN Out(<<list, slist, disc, log>>, {"iscsi_login"},
                      "ValueError", None)
        ELSE Out(<<list, slist, disc, log>>, {"iscsi_login"}, "ok",
                 Some(BlockDeviceVolume(unicode(blockdevice_id),
                                        vol.val.totalSize, Some(attach_to),
                                        dataset.hex)))

\* what the environment answers to one attach_volume: a failing cluster
\* request, or the discovery and login results
AttachAnswers(b) ==
    {[fail |-> f, targets |-> <<>>, login |-> FALSE] : f \in 1..2}
    \cup [fail : {0}, targets : TargetLists([iqn |-> int(b)]), login : BOOLEAN]

attach_volume ==
    \E h \in Hosts, b \in BlockDeviceIds :
      \E e \in AttachAnswers(b) :
        LET id == int(b)
            targets == e.targets
            out == AttachOutcome(h, b, compute_instance_id(h), e.fail, targets,
                                 e.login)
        IN  /\ Usable(h)
            /\ last' = Call("attach_volume", h, id,
                            [attach_to |-> compute_instance_id(h),
                             targets |-> targets],
                            Observed("attach_volume", h, id), out)
            \* a login that succeeds opens a session on the cluster and brings
            \* up the device path on the host
            /\ IF "iscsi_login" \in out.done
               THEN /\ sessions' = sessions \cup {[host |-> h, volumeID |-> id]}
                    /\ devpath' = [devpath EXCEPT ![h] = @ \cup {id}]
               ELSE UNCHANGED <<sessions, devpath>>
            /\ UNCHANGED <<accounts, vags, volumes, nextID, drv, config,
                           completed, overlap, cluster0, destroyed,
                   running>>

(***************************************************************************)
(* detach_volume                                                           *)
(***************************************************************************)
\* if not utils.path_exists(<the volume's device path>, 1): not attached
DetachPathGuardOff(h, vol) == FALSE

DetachPathGuard(h, vol) == ~path_exists(h, vol.iqn)

DetachOutcome(h, blockdevice_id, fail) ==
    LET list == Req("ListVolumesForAccount", [accountID |-> drv[h].account_id])
        vol == _get_solidfire_volume(h, blockdevice_id)
        logout == Req("iscsi_logout", [tgt_iqn |-> vol.val.iqn])
    IN  IF fail = 1 THEN Out(<<list>>, {}, "RequestFailure", None)
        ELSE IF ~vol.some THEN Out(<<list>>, {}, "UnknownVolume", None)
        ELSE IF DetachPathGuard(h, vol.val)
             THEN Out(<<list>>, {}, "UnattachedVolume", None)
        ELSE Out(<<list, logout>>, {"iscsi_logout"}, "ok", None)

detach_volume ==
    \E h \in Hosts, b \in BlockDeviceIds, fail \in 0..1 :
        LET id == int(b)
            out == DetachOutcome(h, b, fail)
        IN  /\ Usable(h)
            /\ last' = Call("detach_volume", h, id, <<>>,
                            Observed("detach_volume", h, id), out)
            \* the logout closes the host's session and takes the path down
            /\ IF "iscsi_logout" \in out.done
               THEN /\ sessions' = sessions \ {[host |-> h, volumeID |-> id]}
                    /\ devpath' = [devpath EXCEPT ![h] = @ \ {id}]
               ELSE UNCHANGED <<sessions, devpath>>
            /\ UNCHANGED <<accounts, vags, volumes, nextID, drv, config,
                           completed, overlap, cluster0, destroyed,
                   running>>

(***************************************************************************)
(* resize_volume                                                           *)
(***************************************************************************)
\* if size <= vol['totalSize']: raise VolumeException
ResizeGuardOff(size, vol) == FALSE

\* a guard that lets a resize to the same size through
ResizeGuardBelow(size, vol) == size < vol.totalSize

ResizeGuard(size, vol) == size <= vol.totalSize

ResizeOutcome(h, blockdevice_id, size, fail) ==
    LET list == Req("ListVolumesForAccount", [accountID |-> drv[h].account_id])
        vol == _get_solidfire_volume(h, blockdevice_id)
        modify == Req("ModifyVolume",
                      [volumeID |-> vol.val.volumeID, totalSize |-> size])
    IN  IF fail = 1 THEN Out(<<list>>, {}, "RequestFailure", None)
        ELSE IF ~vol.some THEN Out(<<list>>, {}, "UnknownVolume", None)
        ELSE IF ResizeGuard(size, vol.val)
             THEN Out(<<list>>, {}, "VolumeException", None)
        ELSE IF fail = 2 THEN Out(<<list, modify>>, {}, "RequestFailure", None)
        ELSE Out(<<list, modify>>, {"ModifyVolume"}, "ok", None)

resize_volume ==
    \E h \in Hosts, b \in BlockDeviceIds, size \in Sizes, fail \in 0..2 :
        LET id == int(b)
            out == ResizeOutcome(h, b, size, fail)
        IN  /\ Usable(h)
            /\ last' = Call("resize_volume", h, id, [size |-> size],
                            Observed("resize_volume", h, id), out)
            /\ volumes' =
                 IF "ModifyVolume" \in out.done
                 THEN LET m == out.calls[2].params
                      IN  [i \in 1..Len(volumes) |->
                             IF volumes[i].volumeID = m.volumeID
                             THEN [volumes[i] EXCEPT !.totalSize = m.totalSize]
                             ELSE volumes[i]]
                 ELSE volumes
            /\ UNCHANGED <<accounts, vags, sessions, nextID, devpath, drv,
                           config, completed, overlap, cluster0, destroyed,
                   running>>

(***************************************************************************)
(* list_volumes                                                            *)
(***************************************************************************)
\* name = v['name']; if 'flock-' in name: name = name.replace('flock-', '')
ListedName(v) ==
    IF StrContains(v.name, FlockPrefix)
    THEN StrReplace(v.name, FlockPrefix, <<>>)
    ELSE v.name

\* a listing that reports every volume as attached nowhere
ListedVolumeDetached(h, v) ==
    BlockDeviceVolume(unicode(PyIntVal(v.volumeID)), v.totalSize, None,
                      UUID(ListedName(v)).hex)

ListedVolume(h, v) ==
    BlockDeviceVolume(unicode(PyIntVal(v.volumeID)), v.totalSize,
                      IF path_exists(h, v.iqn)
                      THEN Some(compute_instance_id(h)) ELSE None,
                      UUID(ListedName(v)).hex)

ListOutcome(h, fail) ==
    LET list == Req("ListVolumesForAccount", [accountID |-> drv[h].account_id])
        sfvols == ListVolumesForAccount(drv[h].account_id)
    IN  IF fail = 1 THEN Out(<<list>>, {}, "RequestFailure", None)
        ELSE IF \E i \in 1..Len(sfvols) : ~UUID(ListedName(sfvols[i])).ok
             THEN Out(<<list>>, {}, "ValueError", None)
        ELSE Out(<<list>>, {}, "ok",
                 Some([i \in 1..Len(sfvols) |-> ListedVolume(h, sfvols[i])]))

list_volumes ==
    \E h \in Hosts, fail \in 0..1 :
        /\ Usable(h)
        /\ last' = Call("list_volumes", h, 0, <<>>,
                        Observed("list_volumes", h, 0),
                        ListOutcome(h, fail))
        /\ UNCHANGED <<cluster, devpath, drv, config, completed, overlap,
                       cluster0, destroyed,
                   running>>

(***************************************************************************)
(* __init__, one action per cluster request.  fail: the request fails.     *)
(***************************************************************************)
IqnLists == {<<"iqn.a">>, <<"iqn.b">>, <<"iqn.a", "iqn.b">>}

NewDriver(iqns) ==
    [pc |-> "new", runs |-> 0, account_id |-> 0, vag_id |-> 0,
     initiator_iqns |-> <<>>, svip |-> None, profiles |-> <<>>,
     err |-> "none", faults |-> 0,
     listed |-> None, missing_iqns |-> <<>>, requested |-> None]

InProgress(d) == d.pc \notin {"new", "done", "failed"}

Failed(d, err) == [d EXCEPT !.pc = "failed", !.err = err]

\* lines 61-70: the prefix, the initiators (the kwarg, or read from
\* /etc/iscsi/initiatorname.iscsi) and the svip (the kwarg, or GetClusterInfo)
AfterAccount(h, d, acct_id) ==
    [d EXCEPT !.account_id = acct_id,
              !.initiator_iqns = config.iqns[h],
              !.svip = config.svip,
              !.pc = IF config.svip.some THEN "ListVolumeAccessGroups"
                     ELSE "GetClusterInfo"]

\* line 73, and the constructor returns
Finished(d, vag_id) ==
    [d EXCEPT !.vag_id = vag_id, !.pc = "done",
              !.profiles = _set_profiles(config.profiles)]

Track(h, d) ==
    /\ drv' = [drv EXCEPT ![h] = d]
    /\ overlap' = (overlap \/ \A k \in Hosts : InProgress(drv'[k]))
    /\ completed' = IF d.pc = "done"
                    THEN Append(completed, [host |-> h,
                                            account_id |-> d.account_id,
                                            vag_id |-> d.vag_id])
                    ELSE completed
    /\ UNCHANGED <<volumes, sessions, devpath, config, cluster0, destroyed,
                   last, running>>

\* _init_solidfire_account, the try: GetAccountByName; any request failure
\* leads to AddAccount
GetAccountByName ==
    \E h \in Hosts, fail \in 0..1 :
        LET d == [NewDriver(<<>>) EXCEPT !.runs = drv[h].runs + 1,
                                         !.pc = "GetAccountByName",
                                         !.faults = fail]
            found == {a \in accounts : a.username = ClusterId}
        IN  /\ ~InProgress(drv[h])
            /\ drv[h].runs < MaxRuns
            /\ IF fail = 0 /\ found # {}
               THEN Track(h, AfterAccount(h, d,
                              (CHOOSE a \in found : TRUE).accountID))
               ELSE Track(h, [d EXCEPT !.pc = "AddAccount"])
            /\ UNCHANGED <<accounts, vags, nextID>>

\* _init_solidfire_account, the except: AddAccount; the cluster refuses a
\* username it already has (xDuplicateUsername), and nothing catches that
AddAccount ==
    \E h \in Hosts, fail \in 0..1 :
        LET d == [drv[h] EXCEPT !.faults = @ + fail]
        IN  /\ drv[h].pc = "AddAccount"
            /\ IF fail = 1
               THEN /\ Track(h, Failed(d, "RequestFailure"))
                    /\ UNCHANGED <<accounts, nextID>>
               ELSE IF \E a \in accounts : a.username = ClusterId
                    THEN /\ Track(h, Failed(d, "xDuplicateUsername"))
                         /\ UNCHANGED <<accounts, nextID>>
               ELSE /\ accounts' = accounts \cup
                           {[accountID |-> nextID.account,
                             username |-> ClusterId]}
                    /\ nextID' = [nextID EXCEPT !.account = @ + 1]
                    /\ Track(h, AfterAccount(h, d, nextID.account))
            /\ UNCHANGED vags

\* _get_svip
GetClusterInfo ==
    \E h \in Hosts, fail \in 0..1 :
        LET d == [drv[h] EXCEPT !.faults = @ + fail]
        IN  /\ drv[h].pc = "GetClusterInfo"
            /\ IF fail = 1
               THEN Track(h, Failed(d, "RequestFailure"))
               ELSE Track(h, [d EXCEPT !.svip = Some("svip:3260"),
                                       !.pc = "ListVolumeAccessGroups"])
            /\ UNCHANGED <<accounts, vags, nextID>>

\* for v in vags: if v['name'] == vag_name: vag = v  (the last match stays)
FindVagNever(vs, vag_name) == None

FindVag(vs, vag_name) ==
    LET named == {v \in vs : v.name = vag_name}
    IN  IF named = {} THEN None
        ELSE Some(CHOOSE v \in named :
                    \A w \in named :
                        w.volumeAccessGroupID <= v.volumeAccessGroupID)

\* for i in iqns: if i not in vag['initiators']: missing_iqns.append(i)
MissingIqnsAll(iqns, vag) == iqns

MissingIqns(iqns, vag) == SelectSeq(iqns, LAMBDA i : i \notin vag.initiators)

\* _initialize_vag, up to its second request
ListVolumeAccessGroups ==
    \E h \in Hosts, fail \in 0..1 :
        LET d == [drv[h] EXCEPT !.faults = @ + fail]
            vag == FindVag(vags, ClusterId)
            missing_iqns == MissingIqns(d.initiator_iqns, vag.val)
        IN  /\ drv[h].pc = "ListVolumeAccessGroups"
            /\ IF fail = 1 THEN Track(h, Failed(d, "RequestFailure"))
               ELSE IF ~vag.some
                    THEN Track(h, [d EXCEPT !.pc = "CreateVolumeAccessGroup"])
               ELSE IF Len(missing_iqns) >= 1
                    THEN Track(h, [d EXCEPT
                             !.pc = "AddInitiatorsToVolumeAccessGroup",
                             !.listed = vag, !.missing_iqns = missing_iqns])
               ELSE Track(h, Finished([d EXCEPT !.listed = vag],
                                      vag.val.volumeAccessGroupID))
            /\ UNCHANGED <<accounts, vags, nextID>>

\* _initialize_vag, if not vag: CreateVolumeAccessGroup
CreateVolumeAccessGroup ==
    \E h \in Hosts, fail \in 0..1 :
        LET d == [drv[h] EXCEPT !.faults = @ + fail]
            iqns == d.initiator_iqns
        IN  /\ drv[h].pc = "CreateVolumeAccessGroup"
            /\ IF fail = 1
               THEN /\ Track(h, Failed(d, "RequestFailure"))
                    /\ UNCHANGED <<vags, nextID>>
               ELSE /\ vags' = vags \cup
                           {[volumeAccessGroupID |-> nextID.vag,
                             name |-> ClusterId,
                             initiators |-> {iqns[i] : i \in 1..Len(iqns)},
                             volumes |-> {}]}
                    /\ nextID' = [nextID EXCEPT !.vag = @ + 1]
                    /\ Track(h, Finished(d, nextID.vag))
            /\ UNCHANGED accounts

\* _initialize_vag, else: AddInitiatorsToVolumeAccessGroup
AddInitiatorsToVolumeAccessGroup ==
    \E h \in Hosts, fail \in 0..1 :
        LET d == [drv[h] EXCEPT !.faults = @ + fail]
            vag == d.listed.val
            id == vag.volumeAccessGroupID
            add == {d.missing_iqns[i] : i \in 1..Len(d.missing_iqns)}
        IN  /\ drv[h].pc = "AddInitiatorsToVolumeAccessGroup"
            /\ IF fail = 1
               THEN /\ Track(h, Failed(d, "RequestFailure"))
                    /\ UNCHANGED vags
               ELSE /\ vags' = {IF g.volumeAccessGroupID = id
                                THEN [g EXCEPT !.initiators = @ \cup add]
                                ELSE g : g \in vags}
                    /\ Track(h, Finished(
                           [d EXCEPT !.requested = Some(d.missing_iqns)], id))
            /\ UNCHANGED <<accounts, nextID>>

(***************************************************************************)
(* Initial states and specifications.                                      *)
(***************************************************************************)
SeqSet(q) == {q[i] : i \in 1..Len(q)}

OtherAccount == [accountID |-> 1, username |-> "admin"]

OtherVag ==
    [volumeAccessGroupID |-> 1, name |-> "backup", initiators |-> {"iqn.z"},
     volumes |-> {}]

NamedVag(R) ==
    [volumeAccessGroupID |-> 2, name |-> ClusterId, initiators |-> R,
     volumes |-> {}]

\* Initialisation: a cluster that may already hold the account and the access
\* group, and two hosts about to build their driver
InitBoot ==
    /\ accounts \in {{OtherAccount},
                     {OtherAccount, [accountID |-> 2, username |-> ClusterId]}}
    /\ vags \in {{OtherVag}} \cup
                {{OtherVag, NamedVag(R)} :
                    R \in {{}, {"iqn.a"}, {"iqn.a", "iqn.c"}}}
    /\ nextID = [account |-> 3, vag |-> 3, volume |-> 1]
    /\ volumes = <<>>
    /\ sessions = {}
    /\ devpath = [h \in Hosts |-> {}]
    /\ config \in [volume_prefix : {<<>>}, profiles : {None},
                   svip : {None, Some("svip:3260")},
                   iqns : [Hosts -> IqnLists]]
    /\ drv = [h \in Hosts |-> NewDriver(<<>>)]
    /\ completed = <<>>
    /\ overlap = FALSE
    /\ cluster0 = [accounts |-> accounts, vags |-> vags]
    /\ destroyed = {}
    /\ last = NoCall
    /\ running = <<>>

NextBoot ==
    \/ GetAccountByName
    \/ AddAccount
    \/ GetClusterInfo
    \/ ListVolumeAccessGroups
    \/ CreateVolumeAccessGroup
    \/ AddInitiatorsToVolumeAccessGroup

SpecBoot == InitBoot /\ [][NextBoot]_vars

\* The volume operations begin where initialisation ends: the hosts in
\* `ready` have built their driver, one after the other, against a cluster
\* that had neither the account nor the group, and no volume exists yet
HostIqns == [h \in Hosts |-> IF h = "h1" THEN <<"iqn.a">> ELSE <<"iqn.b">>]

Ready(h, cfg) ==
    [NewDriver(<<>>) EXCEPT !.pc = "done", !.runs = 1, !.account_id = 3,
                            !.vag_id = 3, !.initiator_iqns = cfg.iqns[h],
                            !.svip = cfg.svip,
                            !.profiles = _set_profiles(cfg.profiles)]

RECURSIVE Runs(_)
Runs(hs) ==
    IF hs = {} THEN <<>>
    ELSE LET h == CHOOSE k \in hs : TRUE
         IN  <<[host |-> h, account_id |-> 3, vag_id |-> 3]>> \o Runs(hs \ {h})

InitVolumes(ready, prefixes, settings) ==
    /\ accounts = {OtherAccount, [accountID |-> 3, username |-> ClusterId]}
    /\ vags = {OtherVag,
               [volumeAccessGroupID |-> 3, name |-> ClusterId,
                initiators |-> UNION {SeqSet(HostIqns[h]) : h \in ready},
                volumes |-> {}]}
    /\ nextID = [account |-> 4, vag |-> 4, volume |-> 1]
    /\ volumes = <<>>
    /\ sessions = {}
    /\ devpath = [h \in Hosts |-> {}]
    /\ config \in [volume_prefix : prefixes, profiles : settings,
                   svip : {Some("svip:3260")}, iqns : {HostIqns}]
    /\ drv = [h \in Hosts |-> IF h \in ready THEN Ready(h, config)
                              ELSE NewDriver(<<>>)]
    /\ completed = Runs(ready)
    /\ overlap = FALSE
    /\ cluster0 = [accounts |-> {OtherAccount}, vags |-> {OtherVag}]
    /\ destroyed = {}
    /\ last = NoCall
    /\ running = <<>>

\* one host, the default prefix and the default profiles
Init == InitVolumes({"h1"}, {<<>>}, {None})

Next ==
    \/ create_volume
    \/ create_volume_with_profile
    \/ destroy_volume
    \/ get_device_path
    \/ attach_volume
    \/ detach_volume
    \/ resize_volume
    \/ list_volumes

Spec == Init /\ [][Next]_vars

\* two hosts against the one cluster
InitHosts == InitVolumes(Hosts, {<<>>}, {None})

SpecHosts == InitHosts /\ [][Next]_vars

\* one host, every volume_prefix setting, volumes of every dataset id
InitNames == InitVolumes({"h1"}, Prefixes, {None})

NextNames ==
    \/ create_volume_of_any_dataset
    \/ destroy_volume
    \/ attach_volume
    \/ detach_volume
    \/ resize_volume
    \/ list_volumes

SpecNames == InitNames /\ [][NextNames]_vars

\* one host, every 'profiles' setting, volumes of every profile name
InitProfile == InitVolumes({"h1"}, {<<>>}, ProfileSettings)

NextProfile ==
    \/ create_volume
    \/ create_volume_with_any_profile
    \/ destroy_volume
    \/ list_volumes

SpecProfile == InitProfile /\ [][NextProfile]_vars

\* A cluster that already holds two volumes of the driver's account, created
\* through the driver, each attached on h1 or not, and a volume of another
\* account; both hosts have built their driver
PairIds == {1, MaxVols + 1}

PairVolume(id) ==
    [volumeID |-> id, name |-> UuidText(IF id = 1 THEN "1" ELSE "a"),
     accountID |-> 3, totalSize |-> 1, iqn |-> id]

ForeignVolume ==
    [volumeID |-> MaxVols + 2, name |-> <<"b", "k">>, accountID |-> 1,
     totalSize |-> 1, iqn |-> MaxVols + 2]

InitPair(ready) ==
    /\ accounts = {OtherAccount, [accountID |-> 3, username |-> ClusterId]}
    /\ vags = {OtherVag,
               [volumeAccessGroupID |-> 3, name |-> ClusterId,
                initiators |-> UNION {SeqSet(HostIqns[h]) : h \in ready},
                volumes |-> PairIds]}
    /\ nextID = [account |-> 4, vag |-> 4, volume |-> MaxVols + 3]
    /\ volumes = <<PairVolume(1), PairVolume(MaxVols + 1), ForeignVolume>>
    /\ \E attached \in SUBSET PairIds :
         /\ sessions = {[host |-> "h1", volumeID |-> i] : i \in attached}
         /\ devpath = [h \in Hosts |-> IF h = "h1" THEN attached ELSE {}]
    /\ config \in [volume_prefix : {<<>>}, profiles : {None},
                   svip : {Some("svip:3260")}, iqns : {HostIqns}]
    /\ drv = [h \in Hosts |-> IF h \in ready THEN Ready(h, config)
                              ELSE NewDriver(<<>>)]
    /\ completed = Runs(ready)
    /\ overlap = FALSE
    /\ cluster0 = [accounts |-> {OtherAccount}, vags |-> {OtherVag}]
    /\ destroyed = {}
    /\ last = NoCall

InitList == InitPair(Hosts) /\ running = <<>>

NextList ==
    \/ destroy_volume
    \/ attach_volume
    \/ detach_volume
    \/ resize_volume
    \/ list_volumes

SpecList == InitList /\ [][NextList]_vars

(***************************************************************************)
(* The lifecycle methods step by step: one action per request to the       *)
(* cluster or command to the host's iSCSI initiator, so that a call on one *)
(* volume can run between the steps of a call on another.  Both calls are  *)
(* made on the driver instance of h1.                                      *)
(***************************************************************************)
StepHost == "h1"

\* the calls on a volume: the method, its argument and the answers the
\* cluster and the host will give to its requests
StepCalls(id) ==
    {[op |-> "attach_volume", size |-> 0, fail |-> e.fail,
      targets |-> e.targets, login |-> e.login, fault |-> None] :
        e \in AttachAnswers(unicode(PyIntVal(id)))}
    \cup {[op |-> "detach_volume", size |-> 0, fail |-> f, targets |-> <<>>,
           login |-> FALSE, fault |-> None] : f \in 0..1}
    \cup {[op |-> "resize_volume", size |-> z, fail |-> f, targets |-> <<>>,
           login |-> FALSE, fault |-> None] : z \in Sizes, f \in 0..2}
    \cup {[op |-> "destroy_volume", size |-> 0, fail |-> 0, targets |-> <<>>,
           login |-> FALSE, fault |-> x] :
            x \in {None} \cup {Some(f) : f \in OtherFailures}}

\* the cluster's and the host's state of one volume
VolumeState(id) ==
    [exists  |-> VolumeOf(id) # {},
     size    |-> IF VolumeOf(id) = {} THEN 0
                 ELSE (CHOOSE v \in VolumeOf(id) : TRUE).totalSize,
     path    |-> id \in devpath[StepHost],
     session |-> [host |-> StepHost, volumeID |-> id] \in sessions]

\* the call made alone, as one step, in the current state
WholeCall(id, c) ==
    LET b == unicode(PyIntVal(id))
    IN  CASE c.op = "attach_volume" ->
                AttachOutcome(StepHost, b, compute_instance_id(StepHost),
                              c.fail, c.targets, c.login)
          [] c.op = "detach_volume" -> DetachOutcome(StepHost, b, c.fail)
          [] c.op = "resize_volume" ->
                ResizeOutcome(StepHost, b, c.size, c.fail)
          [] c.op = "destroy_volume" -> DestroyOutcome(b, c.fault)

\* the state the call made alone leaves its volume in
StateAfter(id, c, out) ==
    LET s == VolumeState(id)
        exists == s.exists /\ "DeleteVolume" \notin out.done
    IN  [exists  |-> exists,
         size    |-> IF ~exists THEN 0
                     ELSE IF "ModifyVolume" \in out.done THEN c.size
                     ELSE s.size,
         path    |-> /\ s.path \/ "iscsi_login" \in out.done
                     /\ "iscsi_logout" \notin out.done,
         session |-> /\ s.session \/ "iscsi_login" \in out.done
                     /\ "iscsi_logout" \notin out.done]

NewCall(id, c) ==
    [call |-> c, pc |-> "start", vol |-> None, result |-> "none",
     ret |-> None, mixed |-> FALSE, before |-> VolumeState(id),
     expected |-> [result |-> WholeCall(id, c).result,
                   ret |-> WholeCall(id, c).ret,
                   after |-> StateAfter(id, c, WholeCall(id, c))]]

\* another volume's call is between its first and its last step
Busy(p) ==
    \E q \in DOMAIN running \ {p} :
        running[q].pc \notin {"start", "finished"}

Advance(p, pc, vol) ==
    running' = [running EXCEPT ![p].pc = pc, ![p].vol = vol,
                               ![p].mixed = @ \/ Busy(p)]

Finish(p, result, ret) ==
    running' = [running EXCEPT ![p].pc = "finished", ![p].result = result,
                               ![p].ret = ret, ![p].mixed = @ \/ Busy(p)]

\* vol = self._get_solidfire_volume(blockdevice_id); if not vol: raise; and,
\* in resize_volume, the size guard
LookupStep ==
    \E p \in DOMAIN running :
        LET c == running[p].call
            vol == _get_solidfire_volume(StepHost, unicode(PyIntVal(p)))
        IN  /\ running[p].pc = "start"
            /\ c.op \in {"attach_volume", "detach_volume", "resize_volume"}
            /\ IF c.fail = 1 THEN Finish(p, "RequestFailure", None)
               ELSE IF ~vol.some THEN Finish(p, "UnknownVolume", None)
               ELSE IF c.op # "resize_volume"
                    THEN Advance(p, "path_exists", vol)
               ELSE IF ResizeGuard(c.size, vol.val)
                    THEN Finish(p, "VolumeException", None)
               ELSE Advance(p, "ModifyVolume", vol)
            /\ UNCHANGED <<cluster, devpath, drv, config, completed, overlap,
                           cluster0, destroyed, last>>

\* utils.path_exists(<the volume's device path>, 1), in attach_volume and in
\* detach_volume
PathExistsStep ==
    \E p \in DOMAIN running :
        LET c == running[p].call
            vol == running[p].vol
        IN  /\ running[p].pc = "path_exists"
            /\ IF c.op = "attach_volume"
               THEN IF AttachPathGuard(StepHost, vol.val)
                    THEN Finish(p, "AlreadyAttachedVolume", None)
                    ELSE Advance(p, "ListISCSISessions", vol)
               ELSE IF DetachPathGuard(StepHost, vol.val)
                    THEN Finish(p, "UnattachedVolume", None)
                    ELSE Advance(p, "iscsi_logout", vol)
            /\ UNCHANGED <<cluster, devpath, drv, config, completed, overlap,
                           cluster0, destroyed, last>>

\* current_sessions = self._current_iscsi_sessions(blockdevice_id)
ListISCSISessionsStep ==
    \E p \in DOMAIN running :
        LET c == running[p].call
        IN  /\ running[p].pc = "ListISCSISessions"
            /\ IF c.fail = 2 THEN Finish(p, "RequestFailure", None)
               ELSE IF _current_iscsi_sessions(unicode(PyIntVal(p))) # {}
                    THEN Finish(p, "AlreadyAttachedVolume", None)
               ELSE Advance(p, "iscsi_discovery", running[p].vol)
            /\ UNCHANGED <<cluster, devpath, drv, config, completed, overlap,
                           cluster0, destroyed, last>>

\* targets = utils.iscsi_discovery(self.svip)
IscsiDiscoveryStep ==
    \E p \in DOMAIN running :
        LET c == running[p].call
            tgt_iqn == running[p].vol.val.iqn
        IN  /\ running[p].pc = "iscsi_discovery"
            /\ IF NoTargets(c.targets, tgt_iqn)
               THEN Finish(p, "Exception", None)
               ELSE Advance(p, "iscsi_login", running[p].vol)
            /\ UNCHANGED <<cluster, devpath, drv, config, completed, overlap,
                           cluster0, destroyed, last>>

\* if utils.iscsi_login(self.svip, tgt_iqn): return BlockDeviceVolume(...)
IscsiLoginStep ==
    \E p \in DOMAIN running :
        LET c == running[p].call
            vol == running[p].vol.val
            dataset == UUID(vol.name)
        IN  /\ running[p].pc = "iscsi_login"
            /\ IF ~c.login
               THEN /\ Finish(p, "Exception", None)
                    /\ UNCHANGED <<sessions, devpath>>
               ELSE /\ sessions' = sessions \cup
                           {[host |-> StepHost, volumeID |-> p]}
                    /\ devpath' = [devpath EXCEPT ![StepHost] = @ \cup {p}]
                    /\ IF ~dataset.ok THEN Finish(p, "ValueError", None)
                       ELSE Finish(p, "ok",
                              Some(BlockDeviceVolume(
                                     unicode(unicode(PyIntVal(p))),
                                     vol.totalSize,
                                     Some(compute_instance_id(StepHost)),
                                     dataset.hex)))
            /\ UNCHANGED <<accounts, vags, volumes, nextID, drv, config,
                           completed, overlap, cluster0, destroyed, last>>

\* utils.iscsi_logout(self.svip, tgt_iqn)
IscsiLogoutStep ==
    \E p \in DOMAIN running :
        /\ running[p].pc = "iscsi_logout"
        /\ sessions' = sessions \ {[host |-> StepHost, volumeID |-> p]}
        /\ devpath' = [devpath EXCEPT ![StepHost] = @ \ {p}]
        /\ Finish(p, "ok", None)
        /\ UNCHANGED <<accounts, vags, volumes, nextID, drv, config,
                       completed, overlap, cluster0, destroyed, last>>

\* self.client.issue_request('ModifyVolume', params, version='5.0')
ModifyVolumeStep ==
    \E p \in DOMAIN running :
        LET c == running[p].call
            vol == running[p].vol.val
        IN  /\ running[p].pc = "ModifyVolume"
            /\ IF c.fail = 2
               THEN /\ Finish(p, "RequestFailure", None)
                    /\ UNCHANGED volumes
               ELSE /\ volumes' =
                         [i \in 1..Len(volumes) |->
                            IF volumes[i].volumeID = vol.volumeID
                            THEN [volumes[i] EXCEPT !.totalSize = c.size]
                            ELSE volumes[i]]
                    /\ Finish(p, "ok", None)
            /\ UNCHANGED <<accounts, vags, sessions, nextID, devpath, drv,
                           config, completed, overlap, cluster0, destroyed,
                           last>>

\* destroy_volume: its one request
DeleteVolumeStep ==
    \E p \in DOMAIN running :
        LET c == running[p].call
            ex == DeleteVolumeAnswer(p, c.fault)
        IN  /\ running[p].pc = "start"
            /\ c.op = "destroy_volume"
            /\ IF ~ex.some
               THEN /\ volumes' = SelectSeq(volumes,
                                            LAMBDA v : v.volumeID # p)
                    /\ Finish(p, "ok", None)
               ELSE /\ UNCHANGED volumes
                    /\ IF IsMissingVolume(ex.val)
                       THEN Finish(p, "UnknownVolume", None)
                       ELSE Finish(p, "RequestFailure", ex)
            /\ UNCHANGED <<accounts, vags, sessions, nextID, devpath, drv,
                           config, completed, overlap, cluster0, destroyed,
                           last>>

\* one call on each of the two volumes, in every order of their steps
InitSteps ==
    /\ InitPair({StepHost})
    /\ \E cx \in StepCalls(1), cy \in StepCalls(MaxVols + 1) :
         running = [p \in PairIds |->
                      NewCall(p, IF p = 1 THEN cx ELSE cy)]

NextSteps ==
    \/ LookupStep
    \/ PathExistsStep
    \/ ListISCSISessionsStep
    \/ IscsiDiscoveryStep
    \/ IscsiLoginStep
    \/ IscsiLogoutStep
    \/ ModifyVolumeStep
    \/ DeleteVolumeStep

SpecSteps == InitSteps /\ [][NextSteps]_vars

(***************************************************************************)
(* Properties.                                                             *)
(***************************************************************************)
\* the cluster answered every request of the last call
Answered == last.result # "RequestFailure"

Issued(method) == method \in Methods(last.calls)

\* C1: an attach_volume of an existing volume whose device path is absent on
\* the host, while the cluster lists an iSCSI session for the volume, fails
\* with AlreadyAttachedVolume and runs neither discovery nor login.
C1_RemoteSessionRejected ==
    (/\ last.op = "attach_volume"
     /\ last.pre.exists
     /\ ~last.pre.path
     /\ last.pre.remote
     /\ Answered)
    => /\ last.result = "AlreadyAttachedVolume"
       /\ ~Issued("iscsi_discovery")
       /\ ~Issued("iscsi_login")

\* C2: an attach_volume that follows at once a successful attach_volume of the
\* same volume on the same host fails with AlreadyAttachedVolume (the cluster
\* answering its lookup) and runs neither discovery nor login.
C2_SecondAttachRejected ==
    (last.op = "attach_volume" /\ last.pre.again)
    => /\ Answered => last.result = "AlreadyAttachedVolume"
       /\ last.result # "ok"
       /\ ~Issued("iscsi_discovery")
       /\ ~Issued("iscsi_login")

C2_Witness ==
    /\ last.op = "attach_volume"
    /\ last.pre.again
    /\ last.result = "AlreadyAttachedVolume"

C4_DestroyedIsUnknown ==
    (/\ last.op \in {"attach_volume", "detach_volume", "resize_volume",
                     "get_device_path", "destroy_volume"}
     /\ last.pre.destroyed)
    => /\ Answered => last.result = "UnknownVolume"
       /\ last.result # "ok"
       /\ last.done = {}

C4_Witness ==
    /\ last.op = "attach_volume"
    /\ last.pre.destroyed
    /\ last.result = "UnknownVolume"

\* C5: a list_volumes that follows a successful create_volume(D, S) returns
\* normally (the cluster answering) and lists a volume of dataset id D and
\* size S, whatever the volume_prefix.
C5_CreateListRoundTrip ==
    (last.op = "list_volumes" /\ last.pre.created.some /\ Answered)
    => /\ last.result = "ok"
       /\ \E i \in 1..Len(last.ret.val) :
            /\ last.ret.val[i].dataset_id
                 = StrReplace(last.pre.created.val.dataset_id, <<"-">>, <<>>)
            /\ last.ret.val[i].size = last.pre.created.val.size

\* C6, as stated: a resize_volume to less than the volume's size fails with
\* VolumeException, whether the cluster answers or not, and issues no
\* ModifyVolume.
C6_ShrinkAlwaysVolumeException ==
    (/\ last.op = "resize_volume"
     /\ last.pre.exists
     /\ last.arg.size < last.pre.size)
    => last.result = "VolumeException" /\ ~Issued("ModifyVolume")

\* C6, amended: a resize_volume to less than the volume's size never issues
\* ModifyVolume and never returns normally; it fails with VolumeException
\* when the cluster answers the lookup, and with the request's failure when
\* it does not.
C6_ShrinkRejected ==
    (/\ last.op = "resize_volume"
     /\ last.pre.exists
     /\ last.arg.size < last.pre.size)
    => /\ ~Issued("ModifyVolume")
       /\ last.result \in {"VolumeException", "RequestFailure"}
       /\ Answered => last.result = "VolumeException"
       /\ \A v \in VolumeOf(last.id) : v.totalSize = last.pre.size

C6_Witness ==
    /\ last.op = "resize_volume"
    /\ last.pre.exists
    /\ last.arg.size < last.pre.size
    /\ last.result = "VolumeException"

Named(set, field) == {x \in set : x[field] = ClusterId}

\* C7: when initialisations that never ran together have finished two or
\* more times, all of them hold the same account_id and the same vag_id,
\* and the cluster has exactly one account and exactly one access group of
\* the cluster identifier's name.
C7_IdempotentBootstrap ==
    (~overlap /\ Len(completed) >= 2)
    => /\ \A i, j \in 1..Len(completed) :
            /\ completed[i].account_id = completed[j].account_id
            /\ completed[i].vag_id = completed[j].vag_id
       /\ Cardinality(Named(accounts, "username")) = 1
       /\ Cardinality(Named(vags, "name")) = 1

C7_Witness ==
    /\ ~overlap
    /\ Len(completed) >= 2
    /\ Named(cluster0.accounts, "username") = {}
    /\ Named(cluster0.vags, "name") = {}

\* C8: an initialisation that found the access group with initiators R and
\* has local initiators L asked for exactly L \ R to be added, each once, and
\* for nothing when L \ R is empty; the group then holds R and L, and nothing
\* else when no other host was initialised; no group ever loses an initiator.
C8_AccessGroupConvergence ==
    /\ \A h \in Hosts :
         (drv[h].pc = "done" /\ drv[h].listed.some)
         => LET R == drv[h].listed.val.initiators
                L == SeqSet(config.iqns[h])
                g == CHOOSE x \in vags :
                        x.volumeAccessGroupID = drv[h].vag_id
                asked == drv[h].requested
            IN  /\ drv[h].vag_id = drv[h].listed.val.volumeAccessGroupID
                /\ asked.some <=> (L \ R # {})
                /\ asked.some => /\ SeqSet(asked.val) = L \ R
                                 /\ Len(asked.val) = Cardinality(L \ R)
                /\ (R \cup L) \subseteq g.initiators
                /\ (\A k \in Hosts \ {h} : drv[k].runs = 0)
                   => g.initiators = R \cup L
    /\ \A g0 \in cluster0.vags :
         \E g \in vags :
            /\ g.volumeAccessGroupID = g0.volumeAccessGroupID
            /\ g0.initiators \subseteq g.initiators

C8_Witness ==
    \E h \in Hosts :
        /\ drv[h].pc = "done"
        /\ drv[h].listed.some
        /\ drv[h].listed.val.initiators = {"iqn.a"}
        /\ config.iqns[h] = <<"iqn.a", "iqn.b">>
        /\ drv[h].requested = Some(<<"iqn.b">>)
        /\ \A k \in Hosts \ {h} : drv[k].runs = 0

\* C9: when two initialisations have run together against a cluster that had
\* no account of the cluster identifier's name, and no request of theirs was
\* failed by the cluster for another reason, both have completed, with the
\* same account_id, and the cluster has exactly one such account.
C9_ConcurrentBootstrapsConverge ==
    (/\ Named(cluster0.accounts, "username") = {}
     /\ overlap
     /\ \A h \in Hosts : drv[h].pc \in {"done", "failed"}
     /\ \A h \in Hosts : drv[h].faults = 0)
    => /\ \A h \in Hosts : drv[h].pc = "done"
       /\ \A h, k \in Hosts : drv[h].account_id = drv[k].account_id
       /\ Cardinality(Named(accounts, "username")) = 1

\* C10: a create passes a qos block to CreateVolume exactly when the profile
\* name is that of a record with minIOPS, maxIOPS and burstIOPS, and the block
\* is those three fields with the record's values (5000/8000/15000 for the
\* built-in Gold); whatever the name, CreateVolume is issued and the create
\* ends as the cluster's answers alone decide.
C10_ProfileToQos ==
    (last.op \in {"create_volume", "create_volume_with_profile"})
    => LET name == last.arg.profile_name
           profiles == drv[last.host].profiles
           complete == /\ name.some
                       /\ name.val \in DOMAIN profiles
                       /\ QosKeys \subseteq DOMAIN profiles[name.val]
           qos == last.calls[1].params.qos
       IN  /\ Len(last.calls) >= 1
           /\ last.calls[1].method = "CreateVolume"
           /\ qos.some <=> complete
           /\ qos.some =>
                /\ DOMAIN qos.val = QosKeys
                /\ \A k \in QosKeys : qos.val[k] = profiles[name.val][k]
           /\ (name = Some("Gold") /\ ~config.profiles.some) =>
                qos = Some([minIOPS |-> 5000, maxIOPS |-> 8000,
                            burstIOPS |-> 15000])
           /\ last.result \in {"ok", "RequestFailure"}
           /\ last.result = "ok"
                <=> last.done = {"CreateVolume",
                                 "AddVolumesToVolumeAccessGroup"}

C10_Witness ==
    /\ last.op = "create_volume_with_profile"
    /\ last.arg.profile_name = Some("Partial")
    /\ config.profiles.some
    /\ last.result = "ok"
    /\ ~last.calls[1].params.qos.some

\* the volumes of the access group the driver of the last call holds
GroupVolumes ==
    UNION {g.volumes : g \in {x \in vags : x.volumeAccessGroupID
                                             = drv[last.host].vag_id}}

\* C11: when create_volume or create_volume_with_profile has returned a
\* BlockDeviceVolume, CreateVolume and then AddVolumesToVolumeAccessGroup were
\* issued and took effect, the new cluster volume is in the driver's access
\* group, and the volume returned has attached_to None and the cluster's
\* volumeID, as unicode, for blockdevice_id.
C11_CreatedIsInAccessGroup ==
    (/\ last.op \in {"create_volume", "create_volume_with_profile"}
     /\ last.result = "ok")
    => /\ Len(last.calls) = 2
       /\ last.calls[1].method = "CreateVolume"
       /\ last.calls[2].method = "AddVolumesToVolumeAccessGroup"
       /\ last.done = {"CreateVolume", "AddVolumesToVolumeAccessGroup"}
       /\ Len(volumes) >= 1
       /\ LET new == volumes[Len(volumes)]
          IN  /\ new.name = config.volume_prefix \o last.arg.dataset_id
              /\ new.volumeID \in GroupVolumes
              /\ last.ret.some
              /\ last.ret.val.attached_to = None
              /\ last.ret.val.blockdevice_id
                   = [type |-> "unicode", digits |-> Digits(new.volumeID)]
              /\ last.ret.val.size = last.arg.size

C11_Witness ==
    /\ last.op = "create_volume_with_profile"
    /\ last.result = "ok"
    /\ last.ret.some
    /\ last.id \in GroupVolumes

\* C12: an attach_volume that ran discovery and was answered no targets, or
\* targets that do not include the volume's target IQN, fails and runs no
\* login.
C12_DiscoveryMissRejected ==
    (/\ last.op = "attach_volume"
     /\ Issued("iscsi_discovery")
     /\ \A v \in VolumeOf(last.id) :
           v.iqn \notin {last.arg.targets[i] :
                           i \in 1..Len(last.arg.targets)})
    => /\ last.result \notin {"ok", "none"}
       /\ ~Issued("iscsi_login")
       /\ "iscsi_login" \notin last.done

\* C13: destroy_volume issues exactly one request, DeleteVolume of the id.
\* When the cluster fails it with xVolumeIDDoesNotExist the call fails with
\* UnknownVolume; when it fails it otherwise the call fails with that very
\* failure, code and message unchanged; it returns normally only when the
\* cluster deleted the volume.
C13_DestroyFailures ==
    (last.op = "destroy_volume")
    => LET ex == last.arg.answer
       IN  /\ last.calls = <<Req("DeleteVolume", [volumeID |-> last.id])>>
           /\ (ex.some /\ IsMissingVolume(ex.val))
                => last.result = "UnknownVolume"
           /\ (ex.some /\ ~IsMissingVolume(ex.val))
                => /\ last.result = "RequestFailure"
                   /\ last.ret = ex
                   /\ last.ret.val \in OtherFailures
           /\ last.result = "ok" <=> ~ex.some
           /\ last.result = "ok" <=> last.done = {"DeleteVolume"}
           /\ last.result = "ok" => VolumeOf(last.id) = {}
           /\ last.result # "ok" => last.done = {}

C13_Witness ==
    /\ last.op = "destroy_volume"
    /\ last.pre.destroyed
    /\ last.result = "UnknownVolume"
    /\ last.arg.answer.some

\* a destroy_volume the cluster fails for another reason
C13_WitnessOther ==
    /\ last.op = "destroy_volume"
    /\ last.pre.exists
    /\ last.result = "RequestFailure"
    /\ last.ret = Some(RequestFailure(401, <<"xPermissionDenied">>))

\* the cluster's volumes of the account of the driver of the last call
AccountVolumes ==
    SelectSeq(volumes, LAMBDA v : v.accountID = drv[last.host].account_id)

\* C14: a list_volumes the cluster answers returns one BlockDeviceVolume per
\* volume the cluster has for the driver's account, in the cluster's order
\* and of the cluster's volumeID and size, and none for another account's;
\* attached_to is the calling host's compute instance id when the volume's
\* device path exists on that host at the call, None when it does not.
C14_ListReflectsDevicePaths ==
    (last.op = "list_volumes" /\ Answered)
    => /\ last.result = "ok"
       /\ Len(last.ret.val) = Len(AccountVolumes)
       /\ \A i \in 1..Len(AccountVolumes) :
            LET v == AccountVolumes[i]
                b == last.ret.val[i]
            IN  /\ b.blockdevice_id
                     = [type |-> "unicode", digits |-> Digits(v.volumeID)]
                /\ b.size = v.totalSize
                /\ (v.iqn \in devpath[last.host])
                     => b.attached_to = Some(last.host)
                /\ (v.iqn \notin devpath[last.host])
                     => b.attached_to = None

\* two volumes listed on h1, one attached there and the other not
C14_Witness ==
    /\ last.op = "list_volumes"
    /\ last.host = "h1"
    /\ last.result = "ok"
    /\ Len(last.ret.val) = 2
    /\ \E i, j \in 1..2 :
         /\ last.ret.val[i].attached_to = Some("h1")
         /\ last.ret.val[j].attached_to = None

\* C15: an initialisation one of whose requests the cluster failed for a
\* reason other than account duplication never completes, and no
\* initialisation is aborted by an account-duplication failure.
C15_BootstrapAllOrNothing ==
    \A h \in Hosts :
        /\ drv[h].faults > 0 => drv[h].pc # "done"
        /\ drv[h].pc = "failed" => drv[h].err # "xDuplicateUsername"

\* C16: with one call (attach, detach, resize or destroy) on each of two
\* existing volumes and their steps in any order, a volume is as it was
\* until its own call starts, and a call that has finished has the result
\* and the return value of the same call made alone, and has left its volume
\* (existence, size, device path, session) as the call made alone leaves it.
C16_DifferentVolumesDoNotInterfere ==
    \A p \in DOMAIN running :
        /\ running[p].pc = "start" => VolumeState(p) = running[p].before
        /\ running[p].pc = "finished"
           => /\ running[p].result = running[p].expected.result
              /\ running[p].ret = running[p].expected.ret
              /\ VolumeState(p) = running[p].expected.after

\* an attach of one volume and a resize of the other, both done, each with a
\* step taken while the other call was under way
C16_Witness ==
    \E p, q \in DOMAIN running :
        /\ p # q
        /\ running[p].pc = "finished"
        /\ running[q].pc = "finished"
        /\ running[p].mixed
        /\ running[q].mixed
        /\ running[p].call.op = "attach_volume"
        /\ running[p].result = "ok"
        /\ running[q].call.op = "resize_volume"
        /\ running[q].result = "ok"

\* C17: whatever the volume_prefix, an attach_volume that fails has opened no
\* session and brought up no device path, and one whose login succeeded
\* returns a BlockDeviceVolume with attached_to the host, the size of the
\* cluster's record and the dataset id its name was made from.
C17_AttachAtomic ==
    (last.op = "attach_volume")
    => /\ last.result # "ok" => last.done = {}
       /\ "iscsi_login" \in last.done
          => /\ last.result = "ok"
             /\ last.ret.some
             /\ last.ret.val.attached_to = Some(last.host)
             /\ last.ret.val.size = last.pre.size
             /\ \E d \in DatasetIds :
                  /\ last.pre.name = config.volume_prefix \o d
                  /\ last.ret.val.dataset_id = StrReplace(d, <<"-">>, <<>>)

\* C18: a create whose CreateVolume the cluster carried out and whose
\* AddVolumesToVolumeAccessGroup it failed ends in that request's failure,
\* returns nothing and issues no DeleteVolume; the new volume is on the
\* cluster, in the account and outside the access group.  A list_volumes
\* that returns reports every volume of the account that is outside the
\* access group.
C18_OrphanedVolumeStays ==
    /\ (/\ last.op \in {"create_volume", "create_volume_with_profile"}
        /\ last.arg.fail = 2)
       => /\ Methods(last.calls)
               = {"CreateVolume", "AddVolumesToVolumeAccessGroup"}
          /\ Len(last.calls) = 2
          /\ last.done = {"CreateVolume"}
          /\ last.result = "RequestFailure"
          /\ ~last.ret.some
          /\ \E v \in VolumeOf(last.id) :
               /\ v.accountID = drv[last.host].account_id
               /\ v.name = config.volume_prefix \o last.arg.dataset_id
          /\ last.id \notin GroupVolumes
    /\ (last.op = "list_volumes" /\ last.result = "ok")
       => \A i \in 1..Len(AccountVolumes) :
            AccountVolumes[i].volumeID \notin GroupVolumes
            => \E j \in 1..Len(last.ret.val) :
                 last.ret.val[j].blockdevice_id
                   = [type |-> "unicode",
                      digits |-> Digits(AccountVolumes[i].volumeID)]

C18_Witness ==
    /\ last.op = "list_volumes"
    /\ last.result = "ok"
    /\ Len(last.ret.val) = 1
    /\ Len(AccountVolumes) = 1
    /\ AccountVolumes[1].volumeID \notin GroupVolumes

\* the create itself, its second request failed
C18_WitnessCreate ==
    /\ last.op = "create_volume_with_profile"
    /\ last.arg.fail = 2
    /\ last.result = "RequestFailure"
    /\ VolumeOf(last.id) # {}
    /\ last.id \notin GroupVolumes

\* a resize_volume that issued ModifyVolume had found the volume by its
\* lookup, and asked for more than the size the lookup read
GrowOnly ==
    (last.op = "resize_volume" /\ Issued("ModifyVolume"))
    => /\ last.calls[1].method = "ListVolumesForAccount"
       /\ last.pre.exists
       /\ last.arg.size > last.pre.size
       /\ last.calls[2].params.totalSize = last.arg.size

\* a step leaves every volume's size as it was, unless it is a resize_volume
\* of that volume whose ModifyVolume the cluster carried out, and then the
\* size has grown to the size asked for
SizeStep ==
    \A i \in 1..Len(volumes), j \in 1..Len(volumes') :
        (volumes[i].volumeID = volumes'[j].volumeID)
        => /\ volumes'[j].totalSize >= volumes[i].totalSize
           /\ (volumes'[j].totalSize # volumes[i].totalSize)
              => /\ last'.op = "resize_volume"
                 /\ last'.id = volumes[i].volumeID
                 /\ "ModifyVolume" \in last'.done
                 /\ volumes'[j].totalSize = last'.arg.size

\* C19: the size the cluster has for a volume never decreases; only a
\* resize_volume changes it, after its lookup found the volume and only to a
\* size strictly greater than the size the lookup read.
C19_SizeNeverDecreases == [](GrowOnly) /\ [][SizeStep]_vars

C19_Witness ==
    /\ last.op = "resize_volume"
    /\ last.result = "ok"
    /\ last.pre.exists
    /\ \E v \in VolumeOf(last.id) :
         v.totalSize = last.arg.size /\ v.totalSize > last.pre.size

\* C20: with two hosts on the one cluster and their calls one after the
\* other, no volume ever has iSCSI sessions from two hosts.
C20_NoMultiAttach ==
    \A s, t \in sessions : s.volumeID = t.volumeID => s.host = t.host

====
